---- MODULE Spec2Model ----
(***************************************************************************)
(* Model of the IVT Anywhere II integration                                *)
(* (custom_components/ivt_anywhere2).  Spec: the OAuth token-lifecycle     *)
(* manager, PointtApi.__init__, _ensure_tokens and _headers (api.py), with *)
(* the persistence callback wired by async_setup_entry (__init__.py).      *)
(* PollSpec: one poll cycle of the coordinator, _async_update_data with    *)
(* _bulk_with_retry (coordinator.py).  UtilSpec: the functions of util.py  *)
(* and the derivations of the coordinator applied to bounded inputs.       *)
(* LiveSpec: the token manager under a fair event loop.  FlowSpec: the     *)
(* configuration flow, async_step_user and async_step_gateway              *)
(* (config_flow.py), over a client of its own.                             *)
(*                                                                         *)
(* A Python float is the exact fraction it stands for.                     *)
(* Strings are sequences of one-character strings so that str.strip() is   *)
(* computed, not assumed.  An Optional value is a record                   *)
(* [present, val].  Every coroutine step between two awaits is one atomic  *)
(* action, as in a single-threaded asyncio event loop.                     *)
(***************************************************************************)
EXTENDS Integers, Sequences, FiniteSets, TLC

\* ------------------------------------------------------------------ bounds
NumCallers == 2      \* concurrent tasks calling _ensure_tokens
MaxPosts   == 3      \* cap on the number of POSTs to the token endpoint
MaxTime    == 2      \* the clock stops advancing at this instant
MaxLen     == 2      \* longest recording list handed to the util functions
MaxEntries == 2      \* longest resourcePaths list handed to the util functions

Callers == 1..NumCallers

\* ------------------------------------------------------- program constants
EXPIRY_MARGIN      == 60      \* Tokens.expired: expires_at - 60
DEFAULT_EXPIRES_IN == 3600    \* js.get("expires_in", 3600)
HTTP_ERROR_FLOOR   == 400     \* resp.status >= 400

\* ------------------------------------------------------------ value model
WS == " "

AbsentStr == [present |-> FALSE, val |-> <<>>]
SomeStr(s) == [present |-> TRUE, val |-> s]
AbsentNum == [present |-> FALSE, val |-> 0]
SomeNum(n) == [present |-> TRUE, val |-> n]

TokA == <<"a">>
TokB == <<"b">>

\* refresh_token arguments handed to the constructor
CtorInputs == { AbsentStr, SomeStr(<<>>), SomeStr(<<WS>>), SomeStr(<<WS, "a", WS>>) }

\* answers of the token endpoint
Statuses == {200, 400}
Responses ==
    [ has_access : {TRUE},
      refresh_token : { AbsentStr, SomeStr(<<>>), SomeStr(TokA), SomeStr(TokB) },
      expires_in : { AbsentNum, SomeNum(60), SomeNum(61) } ]
    \cup { [has_access |-> FALSE, refresh_token |-> AbsentStr, expires_in |-> AbsentNum] }

\* amounts by which time.time() advances between two steps
Deltas == {1}

\* ------------------------------------------------------------- str.strip()
RECURSIVE lstrip(_)
lstrip(s) == IF s # <<>> /\ Head(s) = WS THEN lstrip(Tail(s)) ELSE s

RECURSIVE rstrip(_)
rstrip(s) == IF s # <<>> /\ s[Len(s)] = WS THEN rstrip(SubSeq(s, 1, Len(s) - 1)) ELSE s

strip(s) == rstrip(lstrip(s))

\* Python's `x or default` on an Optional[str]: None and "" are falsy
OrElse(o, default) == IF o.present /\ o.val # <<>> THEN o.val ELSE default

\* ================================================================ util.py
\* A Python float is modelled by the exact fraction it stands for, kept in
\* lowest terms with a positive denominator, so that equal numbers are equal
\* records.
RECURSIVE GCD(_, _)
GCD(a, b) == IF b = 0 THEN a ELSE GCD(b, a % b)

Frac(n, d) == LET g == GCD(IF n < 0 THEN -n ELSE n, d) IN [num |-> n \div g, den |-> d \div g]

FracAdd(a, b) == Frac(a.num * b.den + b.num * a.den, a.den * b.den)

\* a / b for b > 0
FracDiv(a, b) == Frac(a.num * b.den, a.den * b.num)

Zero == Frac(0, 1)

\* Optional[float]
AbsentFrac == [present |-> FALSE, val |-> Zero]
SomeFrac(v) == [present |-> TRUE, val |-> v]

\* A JSON member that holds a number, or is null or missing (dict.get gives
\* None for both)
NumOrZero(o) == IF o.present THEN o.val ELSE 0

\* A payload is None or a dict; `extra` tells that the dict has members other
\* than "recording"; the member "recording" is missing, null or a list of
\* entries. An entry is an object with the members y and c ("object"), or not
\* an object at all ("null"), or an object whose y ("text_y") or c ("text_c")
\* is a text that is not a number
Point(y, c) == [y |-> y, c |-> c, shape |-> "object"]
NullPoint == [y |-> AbsentNum, c |-> AbsentNum, shape |-> "null"]
TextY(c) == [y |-> AbsentNum, c |-> c, shape |-> "text_y"]
TextC(y) == [y |-> y, c |-> AbsentNum, shape |-> "text_c"]
NoRecording == [kind |-> "missing", pts |-> <<>>]
NonePayload == [kind |-> "none", extra |-> FALSE, recording |-> NoRecording]
DictPayload(extra, recording) == [kind |-> "dict", extra |-> extra, recording |-> recording]
ListRecording(pts) == [kind |-> "list", pts |-> pts]

\* `not payload`: None and the empty dict are falsy
Falsy(payload) ==
    \/ payload.kind = "none"
    \/ ~payload.extra /\ payload.recording.kind = "missing"

\* `payload.get("recording") or []`
RecordingOrEmpty(payload) ==
    IF payload.recording.kind = "list" THEN payload.recording.pts ELSE <<>>

\* wh_to_kwh: float(wh * 10) / 1000.0
wh_to_kwh(wh) == Frac(wh * 10, 1000)

\* the loop of recording_points over the list rec
RECURSIVE UsablePoints(_)
UsablePoints(rec) ==
    IF rec = <<>> THEN <<>>
    ELSE IF NumOrZero(Head(rec).c) <= 0
         THEN UsablePoints(Tail(rec))
         ELSE << NumOrZero(Head(rec).y) >> \o UsablePoints(Tail(rec))

recording_points(payload) == UsablePoints(RecordingOrEmpty(payload))

\* What the body of the loop of recording_points does with an entry it cannot
\* read; there is no try around it. p.get on an entry that is not an object
\* is an AttributeError, `text <= 0` a TypeError, and float(text) a ValueError
\* that is only reached when c > 0
PointRaises(p) ==
    \/ p.shape = "null"
    \/ p.shape = "text_c"
    \/ p.shape = "text_y" /\ NumOrZero(p.c) > 0

recording_pointsRaises(payload) ==
    \E i \in DOMAIN RecordingOrEmpty(payload) : PointRaises(RecordingOrEmpty(payload)[i])

\* sum(wh_to_kwh(v) for v in pts)
RECURSIVE SumOfKwh(_)
SumOfKwh(pts) ==
    IF pts = <<>> THEN Zero ELSE FracAdd(wh_to_kwh(Head(pts)), SumOfKwh(Tail(pts)))

sum_kwh(payload) ==
    IF Falsy(payload) THEN AbsentFrac
    ELSE SomeFrac(SumOfKwh(recording_points(payload)))

month_total_kwh(payload) == sum_kwh(payload)

\* kwh_at_index: Python's rec[idx] is the element idx + 1 of the sequence
kwh_at_index(payload, idx) ==
    IF Falsy(payload) THEN AbsentFrac
    ELSE LET rec == RecordingOrEmpty(payload) IN
           IF idx < 0 \/ idx >= Len(rec) THEN AbsentFrac
           ELSE LET y == rec[idx + 1].y IN
                  IF rec[idx + 1].shape = "text_y" THEN AbsentFrac
                  ELSE IF ~y.present THEN AbsentFrac
                  ELSE SomeFrac(wh_to_kwh(y.val))

\* rec[idx].get("y") is outside the try of kwh_at_index: an entry that is not
\* an object raises AttributeError; float(y) is inside it
kwh_at_indexRaises(payload, idx) ==
    /\ ~Falsy(payload)
    /\ idx >= 0
    /\ idx < Len(RecordingOrEmpty(payload))
    /\ RecordingOrEmpty(payload)[idx + 1].shape = "null"

\* compute_cop
compute_copMutant(heat_kwh, elec_kwh) ==
    IF ~heat_kwh.present \/ ~elec_kwh.present THEN AbsentFrac
    ELSE IF elec_kwh.val.num <= 0 THEN SomeFrac(Zero)
    ELSE SomeFrac(FracDiv(heat_kwh.val, elec_kwh.val))
compute_cop(heat_kwh, elec_kwh) ==
    IF ~heat_kwh.present \/ ~elec_kwh.present \/ elec_kwh.val.num <= 0
    THEN AbsentFrac
    ELSE SomeFrac(FracDiv(heat_kwh.val, elec_kwh.val))

\* `x or 0.0` on an Optional[float]: None and 0.0 are falsy
FracOrZero(o) == IF o.present /\ o.val.num # 0 THEN o.val ELSE Zero

\* coordinator.py 108-110 and 119-121: elec = None; if comp is not None or
\* eh is not None: elec = (comp or 0.0) + (eh or 0.0)
ElectricityMutant(comp, eh) == SomeFrac(FracAdd(FracOrZero(comp), FracOrZero(eh)))
Electricity(comp, eh) ==
    IF comp.present \/ eh.present
    THEN SomeFrac(FracAdd(FracOrZero(comp), FracOrZero(eh)))
    ELSE AbsentFrac

\* ---- strings of the bulk protocol: a text is a sequence of fragments and
\* `needle in rp` is the test for a contiguous sub-sequence
Contains(needle, rp) ==
    \E i \in 0..(Len(rp) - Len(needle)) : SubSeq(rp, i + 1, i + Len(needle)) = needle

\* "/energyMonitoring/<source>?interval=" of coordinator.py 95-101
Needle(source) == << "/energyMonitoring/", source, "?interval=" >>

\* f"/recordings/heatSources/total/energyMonitoring/<source>?interval={interval}"
ResourcePath(source, interval) ==
    << "/recordings/heatSources/total" >> \o Needle(source) \o interval

\* ---- JSON of a bulk answer.  resp: a list of roots or something else;
\* root: an object whose member "resourcePaths" is missing, a list of entries
\* or something else; entry: an object with resourcePath and gatewayResponse
\* (missing, null, or an object with status and payload), or not an object
HTTP_OK == 200

NoGw == [kind |-> "missing", status |-> 0, payload |-> NonePayload]
NullGw == [kind |-> "null", status |-> 0, payload |-> NonePayload]
Gw(status, payload) == [kind |-> "obj", status |-> status, payload |-> payload]
Entry(rp, gw) == [isObj |-> TRUE, resourcePath |-> rp, gatewayResponse |-> gw]
NotAnEntry == [isObj |-> FALSE, resourcePath |-> <<>>, gatewayResponse |-> NoGw]
Root(kind, entries) == [isObj |-> TRUE, resourcePaths |-> [kind |-> kind, entries |-> entries]]
NotARoot == [isObj |-> FALSE, resourcePaths |-> [kind |-> "missing", entries |-> <<>>]]
ListResp(items) == [kind |-> "list", items |-> items]
NotAList == [kind |-> "other", items |-> <<>>]

\* `gw = entry.get("gatewayResponse") or {}`, then gw.get("status") and
\* gw.get("payload"); a status of 0 stands for None
GwStatus(entry) ==
    IF entry.gatewayResponse.kind = "obj" THEN entry.gatewayResponse.status ELSE 0
GwPayload(entry) ==
    IF entry.gatewayResponse.kind = "obj" THEN entry.gatewayResponse.payload ELSE NonePayload

\* the test of line 35
EntryMatchesMutant(entry, needle) ==
    /\ Contains(needle, entry.resourcePath)
    /\ GwStatus(entry) = HTTP_OK
EntryMatches(entry, needle) ==
    /\ Contains(needle, entry.resourcePath)
    /\ GwStatus(entry) = HTTP_OK
    /\ GwPayload(entry).kind # "none"

\* the loop of lines 32-36; entry.get on something that is not an object raises,
\* which line 37 turns into None
RECURSIVE ScanEntries(_, _)
ScanEntries(entries, needle) ==
    IF entries = <<>> THEN NonePayload
    ELSE IF ~Head(entries).isObj THEN NonePayload
    ELSE IF EntryMatches(Head(entries), needle) THEN GwPayload(Head(entries))
    ELSE ScanEntries(Tail(entries), needle)

\* _extract_payload_from_bulk; the result None is NonePayload
extract_payload_from_bulk(bulk_resp, needle) ==
    IF bulk_resp.kind # "list" \/ bulk_resp.items = <<>> THEN NonePayload
    ELSE LET root == bulk_resp.items[1] IN
           IF ~root.isObj \/ root.resourcePaths.kind # "list" THEN NonePayload
           ELSE ScanEntries(root.resourcePaths.entries, needle)

\* ---- dates.  The calendar months the model covers, in order; a datetime is
\* [year, month, day, hour, minute]
Calendar ==
    << [year |-> 2023, month |-> 12, days |-> 31], [year |-> 2024, month |-> 1, days |-> 31],
       [year |-> 2024, month |-> 2, days |-> 29], [year |-> 2024, month |-> 3, days |-> 31] >>

MINUTES_PER_HOUR == 60
HOURS_PER_DAY == 24

RECURSIVE DaysBefore(_)
DaysBefore(i) == IF i = 1 THEN 0 ELSE DaysBefore(i - 1) + Calendar[i - 1].days

MonthIndex(year, month) ==
    CHOOSE i \in 1..Len(Calendar) : Calendar[i].year = year /\ Calendar[i].month = month

\* minutes since the first instant of the calendar: what datetime arithmetic
\* works on
Stamp(dt) ==
    ((DaysBefore(MonthIndex(dt.year, dt.month)) + dt.day - 1) * HOURS_PER_DAY + dt.hour)
        * MINUTES_PER_HOUR + dt.minute

FromStamp(ts) ==
    LET d == ts \div (HOURS_PER_DAY * MINUTES_PER_HOUR)
        i == CHOOSE j \in 1..Len(Calendar) :
                 DaysBefore(j) <= d /\ d < DaysBefore(j) + Calendar[j].days
    IN [year |-> Calendar[i].year, month |-> Calendar[i].month, day |-> d - DaysBefore(i) + 1,
        hour |-> (ts \div MINUTES_PER_HOUR) % HOURS_PER_DAY, minute |-> ts % MINUTES_PER_HOUR]

\* zero-padded decimal of n, at least `width` characters ("%Y", "%m", "%d", ":02d")
DigitChars == << "0", "1", "2", "3", "4", "5", "6", "7", "8", "9" >>

RECURSIVE Digits(_, _)
Digits(n, width) ==
    IF n < 10 /\ width <= 1 THEN << DigitChars[n + 1] >>
    ELSE Digits(n \div 10, width - 1) \o << DigitChars[(n % 10) + 1] >>

\* strftime("%Y-%m-%d") and strftime("%Y-%m")
month_str(dt) == Digits(dt.year, 4) \o << "-" >> \o Digits(dt.month, 2)
strftime_day(dt) == month_str(dt) \o << "-" >> \o Digits(dt.day, 2)

\* target = now.replace(minute=0, second=0, microsecond=0) - timedelta(hours=1)
TargetMutant(dt) == FromStamp(Stamp([dt EXCEPT !.minute = 0]))
Target(dt) == FromStamp(Stamp([dt EXCEPT !.minute = 0]) - MINUTES_PER_HOUR)

last_complete_hour_target(dt) ==
    LET target == Target(dt)
        day_str == strftime_day(target)
        idx == target.hour
    IN [day_str |-> day_str, idx |-> idx,
        label |-> day_str \o << " " >> \o Digits(idx, 2) \o << ":", "0", "0" >>]

\* ========================================================= coordinator.py
\* resp.raise_for_status() of get_gateways and bulk raises for a status of
\* 400 and above
raise_for_status(status) == status >= 400

\* Lines 80-89: the try block of _bulk_with_retry holds the inspection of the
\* first response and the retried call; the first call (line 78) is outside.
\* `except Exception: pass` leaves r as it was.
TryCoversMutant(step) == step = "retry"
TryCovers(step) == step \in {"inspect", "retry"}

\* Lines 81-84 raise: r[0] on something that is not a non-empty list, .get on
\* a root or an entry that is not an object, iteration over something that is
\* not a list
InspectRaises(r) ==
    \/ r.kind # "list"
    \/ r.items = <<>>
    \/ ~r.items[1].isObj
    \/ r.items[1].resourcePaths.kind = "other"
    \/ \E i \in 1..Len(r.items[1].resourcePaths.entries) :
          ~r.items[1].resourcePaths.entries[i].isObj

\* entries = r[0].get("resourcePaths", [])
InspectedEntries(r) ==
    IF r.items[1].resourcePaths.kind = "list" THEN r.items[1].resourcePaths.entries ELSE <<>>

\* nullish = sum(1 for e in entries
\*               if (e.get("gatewayResponse") or {}).get("payload") is None)
Nullish(entries) ==
    Cardinality({ i \in 1..Len(entries) : GwPayload(entries[i]).kind = "none" })

\* `if entries and nullish == len(entries):`
AllNullMutant(entries) == entries # <<>> /\ Nullish(entries) > 0
AllNull(entries) == entries # <<>> /\ Nullish(entries) = Len(entries)

\* Lines 95-138: the EnergyData built from the two accepted responses
EnergyDataOf(day_resp, month_resp, hour_idx, label) ==
    LET p_day(source) == extract_payload_from_bulk(day_resp, Needle(source))
        p_m(source) == extract_payload_from_bulk(month_resp, Needle(source))
        comp_last == kwh_at_index(p_day("compressor"), hour_idx)
        eh_last == kwh_at_index(p_day("eheater"), hour_idx)
        out_last == kwh_at_index(p_day("outputProduced"), hour_idx)
        elec_last == Electricity(comp_last, eh_last)
        comp_m == month_total_kwh(p_m("compressor"))
        eh_m == month_total_kwh(p_m("eheater"))
        out_m == month_total_kwh(p_m("outputProduced"))
        elec_m == Electricity(comp_m, eh_m)
    IN [last_hour_label |-> label,
        compressor_kwh_last_hour |-> comp_last,
        eheater_kwh_last_hour |-> eh_last,
        electricity_kwh_last_hour |-> elec_last,
        heat_output_kwh_last_hour |-> out_last,
        cop_last_hour |-> compute_cop(out_last, elec_last),
        compressor_kwh_month |-> comp_m,
        eheater_kwh_month |-> eh_m,
        electricity_kwh_month |-> elec_m,
        heat_output_kwh_month |-> out_m,
        cop_month |-> compute_cop(out_m, elec_m)]

\* ------------------------------------------------------------------ state
VARIABLES
    client,        \* "none" | "ok" | "failed": outcome of PointtApi(...)
    ctorArg,       \* the refresh_token argument PointtApi(...) was called with
    hasCb,         \* self._on_refresh_token is not None
    seed,          \* self._refresh_token_seed
    tokens,        \* self._tokens (present = FALSE models None)
    persisted,     \* entry.data[CONF_REFRESH_TOKEN]
    lockHolder,    \* task holding self._lock, 0 when unlocked
    waiters,       \* FIFO queue of tasks blocked in self._lock.acquire()
    pc,            \* position of each task inside _ensure_tokens
    frame,         \* locals of the task holding the lock
    pre,           \* what the lock holder saw when it acquired the lock
    now,           \* time.time()
    posts,         \* number of POSTs sent to the token endpoint so far
    serverCurrent, \* refresh token the authorization server last handed out
    last,          \* record of the most recently finished _ensure_tokens call
    request,       \* the request get_gateways / bulk sent last
    poll,          \* the coordinator's _async_update_data in progress
    calc,          \* one application of a function of util.py
    flow           \* the configuration flow (ConfigFlow) of one user

\* the state of the PointtApi object and of its callers
tokenVars == << client, ctorArg, hasCb, seed, tokens, persisted, lockHolder, waiters, pc,
                frame, pre, now, posts, serverCurrent, last, request >>

vars == << tokenVars, poll, calc, flow >>

NoTokens == [present |-> FALSE, access_token |-> 0, refresh_token |-> <<>>, expires_at |-> 0]

MkTokens(access, refresh, expires_at) ==
    [present |-> TRUE, access_token |-> access, refresh_token |-> refresh,
     expires_at |-> expires_at]

NoFrame ==
    [rt |-> <<>>, status |-> 0,
     js |-> [has_access |-> FALSE, refresh_token |-> AbsentStr, expires_in |-> AbsentNum],
     access |-> 0, refresh |-> <<>>, expires_in |-> 0, cbCount |-> 0, cbArg |-> <<>>]

NoPre == [seed0 |-> <<>>, tokens0 |-> NoTokens, persisted0 |-> <<>>, queued |-> FALSE]

NoLast == [outcome |-> "none", posted |-> FALSE, frame |-> NoFrame, cbThrew |-> FALSE,
           queued |-> FALSE]

NoRequest == [sent |-> FALSE, headers |-> [Authorization |-> 0]]

\* the coordinator between two polls, and no function of util.py applied
NoPoll ==
    [pc |-> "idle", set |-> "day", day |-> <<>>, month |-> <<>>, hour_idx |-> 0, label |-> <<>>,
     first |-> NotAList, day_resp |-> NotAList, month_resp |-> NotAList,
     calls |-> [day |-> 0, month |-> 0], answer |-> [status |-> 0, body |-> NotAList], sawError |-> FALSE,
     data |-> EnergyDataOf(NotAList, NotAList, 0, <<>>)]
\* the configuration flow showing its first form, nothing stored
NoFlow == [pc |-> "form", errors |-> "none", refresh_token |-> <<>>, gateways |-> <<>>,
           entry |-> [created |-> FALSE, refresh_token |-> <<>>, gateway_id |-> 0]]
NoCalc ==
    [fn |-> "none", kind |-> "none", payload |-> NonePayload, idx |-> 0, bulk_resp |-> NotAList,
     needle |-> <<>>, a |-> AbsentFrac, b |-> AbsentFrac, c |-> AbsentFrac,
     now |-> [year |-> 2024, month |-> 1, day |-> 1, hour |-> 0, minute |-> 0],
     raised |-> FALSE, out |-> 0]

\* Tokens.expired()
expiredMutant(t, time) == time > t.expires_at - EXPIRY_MARGIN
expired(t, time) == time >= t.expires_at - EXPIRY_MARGIN

\* asyncio.Lock.acquire() succeeds at once only when the lock is unlocked and
\* nobody is queued for it
LockFreeMutant == TRUE
LockFree == lockHolder = 0 /\ waiters = <<>>

InitTokens ==
    /\ client = "none"
    /\ ctorArg = AbsentStr
    /\ hasCb = FALSE
    /\ seed = <<>>
    /\ tokens = NoTokens
    /\ persisted = <<>>
    /\ lockHolder = 0
    /\ waiters = <<>>
    /\ pc = [c \in Callers |-> "idle"]
    /\ frame = NoFrame
    /\ pre = NoPre
    /\ now = 0
    /\ posts = 0
    /\ serverCurrent = <<>>
    /\ last = NoLast
    /\ request = NoRequest

Init ==
    /\ InitTokens
    /\ poll = NoPoll
    /\ calc = NoCalc
    /\ flow = NoFlow

\* ------------------------------------------------------ PointtApi.__init__
\* The seed check of the constructor: raise ValueError on a blank seed
CtorAcceptsMutant(s) == TRUE
CtorAccepts(s) == s # <<>>

Construct(raw, cb) ==
    /\ client = "none"
    /\ ctorArg' = raw
    /\ LET s == strip(OrElse(raw, <<>>)) IN
         IF CtorAccepts(s)
         THEN /\ client' = "ok"
              /\ seed' = s
              /\ hasCb' = cb
              /\ persisted' = IF cb THEN s ELSE <<>>
              /\ serverCurrent' = s
         ELSE /\ client' = "failed"
              /\ UNCHANGED << seed, hasCb, persisted, serverCurrent >>
    /\ UNCHANGED << tokens, lockHolder, waiters, pc, frame, pre, now, posts,
                    last, request, poll, calc >>

\* ------------------------------------------- PointtApi._ensure_tokens
\* `if resp.status >= 400: raise RuntimeError(...)`
IsHttpErrorMutant(status) == status > HTTP_ERROR_FLOOR
IsHttpError(status) == status >= HTTP_ERROR_FLOOR

\* `if self._tokens and not self._tokens.expired(): return self._tokens`
ShouldRefreshMutant == TRUE
ShouldRefresh == ~tokens.present \/ expired(tokens, now)

\* rt = (self._tokens.refresh_token if self._tokens else self._refresh_token_seed).strip()
RefreshTokenToSend == strip(IF tokens.present THEN tokens.refresh_token ELSE seed)

\* refresh = (js.get("refresh_token") or rt).strip()
NewRefresh(js, rt) == strip(OrElse(js.refresh_token, rt))

\* expires_in = float(js.get("expires_in", 3600))
ExpiresInMutant(js) == IF js.expires_in.present THEN js.expires_in.val ELSE 0
ExpiresIn(js) == IF js.expires_in.present THEN js.expires_in.val ELSE DEFAULT_EXPIRES_IN

\* `if refresh != self._refresh_token_seed:` rotation test
IsRotation(refresh, rt) == refresh # seed

\* `self._refresh_token_seed = refresh` runs before `await self._on_refresh_token(refresh)`:
\* the seed while the callback is running
SeedDuringCallbackMutant(refresh) == seed
SeedDuringCallback(refresh) == refresh

\* _store_refresh_token(new_refresh) of async_setup_entry: value of the config
\* entry after the callback returned normally
StoreRefreshToken(entry, new_refresh) ==
    LET n == strip(new_refresh) IN
      IF n = <<>> THEN entry
      ELSE IF n = entry THEN entry
      ELSE n

\* ------------------------- PointtApi._headers / get_gateways / bulk
\* _headers(): `t = await self._ensure_tokens()`, then the Authorization header
\* built from t.access_token
HeadersMutant(t) == IF request.sent THEN request.headers ELSE [Authorization |-> t.access_token]
Headers(t) == [Authorization |-> t.access_token]

\* `self._session.get(url, headers=await self._headers())` of get_gateways and
\* `self._session.post(url, headers=await self._headers(), json=body)` of bulk:
\* the request leaves in the step in which _ensure_tokens returned t
SendRequest(t) == [sent |-> TRUE, headers |-> Headers(t)]

\* `async with self._lock` releases the lock when the body is left, by return
\* or by exception: the holder after task c left with the given outcome
LockAfterMutant(c, outcome) == IF outcome = "raise" THEN c ELSE 0
LockAfter(c, outcome) == 0

\* Leaving `async with self._lock`, by return or by exception; a return hands
\* the stored tokens to _headers, whose caller sends its request at once
Finish(c, outcome, posted, f, q, threw, s1, t1, p1) ==
    /\ pc' = [pc EXCEPT ![c] = "idle"]
    /\ lockHolder' = LockAfter(c, outcome)
    /\ frame' = NoFrame
    /\ pre' = NoPre
    /\ seed' = s1
    /\ tokens' = t1
    /\ persisted' = p1
    /\ last' = [outcome |-> outcome, posted |-> posted, frame |-> f, cbThrew |-> threw,
                queued |-> q]
    /\ IF outcome = "return"
       THEN request' = SendRequest(t1)
       ELSE UNCHANGED << request >>

\* Body of `async with self._lock` up to the first await (the POST); q tells
\* whether the task had to queue for the lock
Enter(c, q) ==
    IF ~ShouldRefresh
    THEN /\ Finish(c, "return", FALSE, NoFrame, q, FALSE, seed, tokens, persisted)
         /\ UNCHANGED << posts >>
    ELSE /\ posts < MaxPosts
         /\ pc' = [pc EXCEPT ![c] = "posting"]
         /\ lockHolder' = c
         /\ frame' = [NoFrame EXCEPT !.rt = RefreshTokenToSend]
         /\ pre' = [seed0 |-> seed, tokens0 |-> tokens, persisted0 |-> persisted,
                    queued |-> q]
         /\ posts' = posts + 1
         /\ UNCHANGED << seed, tokens, persisted, last, request >>

\* A task calls _ensure_tokens: it takes the lock at once or queues for it
Call(c) ==
    /\ client = "ok"
    /\ pc[c] = "idle"
    /\ IF LockFree
       THEN /\ Enter(c, FALSE)
            /\ UNCHANGED << waiters >>
       ELSE /\ pc' = [pc EXCEPT ![c] = "waiting"]
            /\ waiters' = Append(waiters, c)
            /\ UNCHANGED << seed, tokens, persisted, lockHolder, frame, pre, posts, last,
                            request >>
    /\ UNCHANGED << client, ctorArg, hasCb, now, serverCurrent, poll, calc >>

\* The lock was released: the first queued task acquires it and runs the body
Wake(c) ==
    /\ lockHolder = 0
    /\ waiters # <<>>
    /\ c = Head(waiters)
    /\ pc[c] = "waiting"
    /\ waiters' = Tail(waiters)
    /\ Enter(c, TRUE)
    /\ UNCHANGED << client, ctorArg, hasCb, now, serverCurrent, poll, calc >>

\* The token endpoint answered: lines 98-139 up to the await of the callback
Response(c, status, js) ==
    /\ pc[c] = "posting"
    /\ lockHolder = c
    /\ LET f0 == [frame EXCEPT !.status = status, !.js = js] IN
       IF IsHttpError(status)
       THEN \* raise RuntimeError("Token refresh failed ..."): the body is never parsed
            /\ Finish(c, "raise", TRUE, [frame EXCEPT !.status = status], pre.queued, FALSE, seed, tokens, persisted)
            /\ UNCHANGED << serverCurrent >>
       ELSE IF ~js.has_access
       THEN \* js["access_token"] raises KeyError
            /\ Finish(c, "raise", TRUE, f0, pre.queued, FALSE, seed, tokens, persisted)
            /\ UNCHANGED << serverCurrent >>
       ELSE LET refresh == NewRefresh(js, frame.rt)
                f1 == [f0 EXCEPT !.access = posts, !.refresh = refresh,
                                 !.expires_in = ExpiresIn(js)]
                installed == MkTokens(f1.access, refresh, now + f1.expires_in)
            IN /\ serverCurrent' = refresh
               /\ IF IsRotation(refresh, frame.rt)
                  THEN IF hasCb
                       THEN \* seed updated, callback awaited
                            /\ seed' = SeedDuringCallback(refresh)
                            /\ frame' = [f1 EXCEPT !.cbCount = 1, !.cbArg = refresh]
                            /\ pc' = [pc EXCEPT ![c] = "callback"]
                            /\ UNCHANGED << tokens, persisted, lockHolder, pre, last,
                                            request >>
                       ELSE Finish(c, "return", TRUE, f1, pre.queued, FALSE, refresh,
                                   installed, persisted)
                  ELSE Finish(c, "return", TRUE, f1, pre.queued, FALSE, seed,
                              installed, persisted)
    /\ UNCHANGED << client, ctorArg, hasCb, waiters, now, posts, poll, calc >>

\* The persistence callback finished: it returned (lines 128-139) or threw
CallbackDone(c, threw) ==
    /\ pc[c] = "callback"
    /\ lockHolder = c
    /\ IF threw
       THEN Finish(c, "raise", TRUE, frame, pre.queued, TRUE, seed, tokens, persisted)
       ELSE Finish(c, "return", TRUE, frame, pre.queued, FALSE, seed,
                   MkTokens(frame.access, frame.refresh, now + frame.expires_in),
                   StoreRefreshToken(persisted, frame.cbArg))
    /\ UNCHANGED << client, ctorArg, hasCb, waiters, now, posts, serverCurrent, poll,
                    calc >>

\* time.time() advances
Tick(d) ==
    /\ now < MaxTime
    /\ now' = now + d
    /\ UNCHANGED << client, ctorArg, hasCb, seed, tokens, persisted, lockHolder, waiters, pc,
                    frame, pre, posts, serverCurrent, last, request, poll, calc >>

Next ==
    \/ \E raw \in CtorInputs, cb \in BOOLEAN : Construct(raw, cb) /\ UNCHANGED flow
    \/ \E c \in Callers : Call(c) /\ UNCHANGED flow
    \/ \E c \in Callers : Wake(c) /\ UNCHANGED flow
    \/ \E c \in Callers, status \in Statuses, js \in Responses :
          Response(c, status, js) /\ UNCHANGED flow
    \/ \E c \in Callers, threw \in BOOLEAN : CallbackDone(c, threw) /\ UNCHANGED flow
    \/ \E d \in Deltas : Tick(d) /\ UNCHANGED flow

Spec == Init /\ [][Next]_vars

\* ---------------------------------------------- the token manager, fairly
\* The same client under the scheduling of asyncio: the event loop runs the
\* task the released lock woke up (asyncio.Lock wakes its waiters in FIFO
\* order), and every POST and every callback comes to an end. So that the
\* bound on the number of POSTs never stops a task that is already queued, a
\* call is admitted only while a POST is left for it and for every queued task.
\* The clock stands still: an answer with expires_in 60 leaves a token that is
\* due at once and every other answer one that is valid, so that a task that
\* gets the lock takes either branch.
Admitted == posts + Cardinality({ c \in Callers : pc[c] = "waiting" }) < MaxPosts

LiveNext ==
    \/ \E raw \in CtorInputs, cb \in BOOLEAN : Construct(raw, cb) /\ UNCHANGED flow
    \/ \E c \in Callers : Admitted /\ Call(c) /\ UNCHANGED flow
    \/ \E c \in Callers : Wake(c) /\ UNCHANGED flow
    \/ \E c \in Callers, status \in Statuses, js \in Responses :
          Response(c, status, js) /\ UNCHANGED flow
    \/ \E c \in Callers, threw \in BOOLEAN : CallbackDone(c, threw) /\ UNCHANGED flow

\* At any instant at most one task of the client is able to move: the holder
\* of the lock, whose POST or callback ends, or else the first queued task
Progress ==
    \/ \E c \in Callers : Wake(c) /\ UNCHANGED flow
    \/ \E c \in Callers, status \in Statuses, js \in Responses :
          Response(c, status, js) /\ UNCHANGED flow
    \/ \E c \in Callers, threw \in BOOLEAN : CallbackDone(c, threw) /\ UNCHANGED flow

LiveSpec == Init /\ [][LiveNext]_vars /\ WF_vars(Progress)

\* =============================================== applying util.py functions
\* Inputs the functions of util.py and the derivations of the coordinator are
\* applied to
Points ==
    { Point(y, c) : y \in { AbsentNum, SomeNum(0), SomeNum(1000), SomeNum(2500) },
                    c \in { AbsentNum, SomeNum(0), SomeNum(1) } }
    \cup { NullPoint, TextY(SomeNum(0)), TextY(SomeNum(1)), TextC(SomeNum(1000)) }

SeqsUpTo(S, n) == UNION { [1..k -> S] : k \in 0..n }

\* None, {}, a dict without "recording", a dict whose "recording" is null, and
\* dicts with a list
Payloads ==
    { NonePayload, DictPayload(FALSE, NoRecording), DictPayload(TRUE, NoRecording),
      DictPayload(FALSE, [kind |-> "null", pts |-> <<>>]) }
    \cup { DictPayload(FALSE, ListRecording(r)) : r \in SeqsUpTo(Points, MaxLen) }

PayA == DictPayload(FALSE, ListRecording(<< Point(SomeNum(2500), SomeNum(1)) >>))
PayB == DictPayload(FALSE, ListRecording(<< Point(SomeNum(1000), SomeNum(1)) >>))

SomeDay == << "2", "0", "2", "4", "-", "0", "3", "-", "1", "0" >>
Sources == { "compressor", "eheater" }
Entries ==
    { NotAnEntry }
    \cup { Entry(ResourcePath(src, SomeDay), gw) :
               src \in Sources,
               gw \in { NoGw, NullGw } \cup { Gw(s, p) : s \in {HTTP_OK, 404},
                                                        p \in {NonePayload, PayA, PayB} } }
BulkResponses ==
    { NotAList, ListResp(<<>>), ListResp(<< NotARoot >>), ListResp(<< Root("missing", <<>>) >>),
      ListResp(<< Root("other", <<>>) >>) }
    \cup { ListResp(<< Root("list", es) >>) : es \in SeqsUpTo(Entries, MaxEntries) }

Kwhs == { AbsentFrac } \cup { SomeFrac(Frac(n, 1)) : n \in {0 - 100, 0, 5, 100, 300} }

DateTimes ==
    { [year |-> Calendar[i].year, month |-> Calendar[i].month, day |-> d, hour |-> h,
       minute |-> m] : i \in 2..Len(Calendar), d \in 1..31, h \in 0..(HOURS_PER_DAY - 1),
                       m \in {0, 15, 34} } 

PayloadInputs ==
    { [NoCalc EXCEPT !.kind = "payload", !.payload = p, !.idx = i] :
          p \in Payloads, i \in (0 - 1)..MaxLen }
BulkInputs ==
    { [NoCalc EXCEPT !.kind = "bulk", !.bulk_resp = r, !.needle = Needle(src)] :
          r \in BulkResponses, src \in Sources }
KwhInputs ==
    { [NoCalc EXCEPT !.kind = "kwh", !.a = a, !.b = b, !.c = c] :
          a \in Kwhs, b \in Kwhs, c \in Kwhs }
DateTimeInputs ==
    { [NoCalc EXCEPT !.kind = "datetime", !.now = dt] :
          dt \in { t \in DateTimes : t.day <= Calendar[MonthIndex(t.year, t.month)].days } }

UtilInit ==
    /\ InitTokens
    /\ poll = NoPoll
    /\ flow = NoFlow
    /\ \/ calc \in PayloadInputs
       \/ calc \in BulkInputs
       \/ calc \in KwhInputs
       \/ calc \in DateTimeInputs

\* one function is applied to the input drawn
\* `raised` tells that the call ended in an exception instead of a value
Apply(fn, kind, raised, out) ==
    /\ calc.fn = "none"
    /\ calc.kind = kind
    /\ calc' = [calc EXCEPT !.fn = fn, !.raised = raised,
                            !.out = IF raised THEN AbsentFrac ELSE out]
    /\ UNCHANGED << tokenVars, poll, flow >>

ApplyKwhAtIndex ==
    Apply("kwh_at_index", "payload", kwh_at_indexRaises(calc.payload, calc.idx),
          kwh_at_index(calc.payload, calc.idx))

\* sum_kwh returns before the loop of recording_points on a falsy payload
ApplySumKwh ==
    Apply("sum_kwh", "payload", ~Falsy(calc.payload) /\ recording_pointsRaises(calc.payload),
          month_total_kwh(calc.payload))

\* recording_points takes a dict
ApplyRecordingPoints ==
    /\ calc.payload.kind = "dict"
    /\ Apply("recording_points", "payload", recording_pointsRaises(calc.payload),
             recording_points(calc.payload))

\* the whole body of _extract_payload_from_bulk is inside a try that answers None
ApplyExtract ==
    Apply("extract_payload_from_bulk", "bulk", FALSE,
          extract_payload_from_bulk(calc.bulk_resp, calc.needle))

ApplyComputeCop == Apply("compute_cop", "kwh", FALSE, compute_cop(calc.a, calc.b))

\* coordinator.py 108-112: electricity from compressor a and e-heater b, then
\* the COP of heat output c over it
ApplyDerive ==
    Apply("derive", "kwh", FALSE,
          [elec |-> Electricity(calc.a, calc.b),
           cop |-> compute_cop(calc.c, Electricity(calc.a, calc.b))])

ApplyHourTarget ==
    Apply("last_complete_hour_target", "datetime", FALSE, last_complete_hour_target(calc.now))

UtilNext ==
    \/ ApplyKwhAtIndex
    \/ ApplySumKwh
    \/ ApplyRecordingPoints
    \/ ApplyExtract
    \/ ApplyComputeCop
    \/ ApplyDerive
    \/ ApplyHourTarget

UtilSpec == UtilInit /\ [][UtilNext]_vars

\* ====================================== one poll cycle of the coordinator
\* answers of the bulk endpoint
ApiStatuses == { HTTP_OK, 500 }

\* a two-point recording: the buckets of index 0 and 1
PayDay == DictPayload(FALSE, ListRecording(<< Point(SomeNum(2500), SomeNum(1)),
                                              Point(AbsentNum, SomeNum(0)) >>))

\* bodies the bulk endpoint answers with for the three paths of one interval
ThreeEntries(interval, gwc, gwe, gwo) ==
    ListResp(<< Root("list", << Entry(ResourcePath("compressor", interval), gwc),
                                Entry(ResourcePath("eheater", interval), gwe),
                                Entry(ResourcePath("outputProduced", interval), gwo) >>) >>)

PollBodies(interval) ==
    { NotAList, ListResp(<<>>), ListResp(<< NotARoot >>),
      ListResp(<< Root("missing", <<>>) >>), ListResp(<< Root("list", <<>>) >>),
      ListResp(<< Root("list", << Entry(ResourcePath("compressor", interval),
                                        Gw(HTTP_OK, NonePayload)), NotAnEntry >>) >>),
      ThreeEntries(interval, Gw(HTTP_OK, NonePayload), Gw(HTTP_OK, NonePayload),
                   Gw(HTTP_OK, NonePayload)),
      ThreeEntries(interval, Gw(404, NonePayload), NoGw, NullGw),
      ThreeEntries(interval, Gw(HTTP_OK, PayDay), Gw(HTTP_OK, NonePayload),
                   Gw(HTTP_OK, NonePayload)),
      ThreeEntries(interval, Gw(HTTP_OK, PayDay), Gw(HTTP_OK, PayB), Gw(HTTP_OK, PayDay)) }

\* the interval of the paths in flight
Interval == IF poll.set = "day" THEN poll.day ELSE poll.month

\* Lines 54-78 and 92: a poll starts, computes its target and awaits the
\* first bulk call for the day paths
PollStart(t) ==
    /\ poll.pc \in {"idle", "done", "failed"}
    /\ LET target == last_complete_hour_target(t) IN
         poll' = [NoPoll EXCEPT !.pc = "first", !.set = "day",
                                !.day = target.day_str, !.hour_idx = target.idx,
                                !.label = target.label, !.month = month_str(t),
                                !.calls = [day |-> 1, month |-> 0]]
    /\ UNCHANGED << tokenVars, calc, flow >>

\* `except Exception as e: raise UpdateFailed(str(e)) from e`
Fail(answer) == poll' = [poll EXCEPT !.pc = "failed", !.answer = answer, !.sawError = TRUE]

\* _bulk_with_retry returns r: day_resp is set and the first bulk call of the
\* month paths is awaited (line 93), or month_resp is set and lines 95-138 run
Accept(r, answer, err) ==
    IF poll.set = "day"
    THEN poll' = [poll EXCEPT !.pc = "first", !.set = "month", !.first = NotAList,
                              !.day_resp = r, !.answer = answer,
                              !.sawError = poll.sawError \/ err, !.calls.month = 1]
    ELSE poll' = [poll EXCEPT !.pc = "done", !.first = NotAList, !.month_resp = r,
                              !.answer = answer, !.sawError = poll.sawError \/ err,
                              !.data = EnergyDataOf(poll.day_resp, r, poll.hour_idx,
                                                    poll.label)]

\* The first bulk call of a set is answered (line 78), then lines 80-86 up to
\* the sleep
FirstAnswer(status, body) ==
    /\ poll.pc = "first"
    /\ IF raise_for_status(status)
       THEN Fail([status |-> status, body |-> NotAList])
       ELSE LET answer == [status |-> status, body |-> body] IN
            IF InspectRaises(body)
            THEN IF TryCovers("inspect") THEN Accept(body, answer, FALSE) ELSE Fail(answer)
            ELSE IF AllNull(InspectedEntries(body))
                 THEN poll' = [poll EXCEPT !.pc = "sleep", !.first = body, !.answer = answer]
                 ELSE Accept(body, answer, FALSE)
    /\ UNCHANGED << tokenVars, calc, flow >>

\* asyncio.sleep(0.8) is over: the same bulk call is sent again (line 87)
RetrySend ==
    /\ poll.pc = "sleep"
    /\ poll' = [poll EXCEPT !.pc = "retry", !.calls[poll.set] = @ + 1]
    /\ UNCHANGED << tokenVars, calc, flow >>

\* The retried call is answered: r is replaced, or the call raised inside the
\* try block
RetryAnswer(status, body) ==
    /\ poll.pc = "retry"
    /\ IF raise_for_status(status)
       THEN IF TryCovers("retry")
            THEN Accept(poll.first, [status |-> status, body |-> NotAList], TRUE)
            ELSE Fail([status |-> status, body |-> NotAList])
       ELSE Accept(body, [status |-> status, body |-> body], FALSE)
    /\ UNCHANGED << tokenVars, calc, flow >>

PollNext ==
    \/ \E h \in {0, 1, 2} :
          PollStart([year |-> 2024, month |-> 3, day |-> 10, hour |-> h, minute |-> 15])
    \/ \E status \in ApiStatuses, body \in PollBodies(Interval) : FirstAnswer(status, body)
    \/ RetrySend
    \/ \E status \in ApiStatuses, body \in PollBodies(Interval) : RetryAnswer(status, body)

PollSpec == Init /\ [][PollNext]_vars

\* ===================================================== the configuration flow
\* config_flow.py: async_step_user builds a client without callback from the
\* token the user typed, lists the gateways (which refreshes the tokens), and
\* keeps the client's current refresh token; async_step_gateway creates the
\* entry. The flow is the only task of its client.
FlowTask == 1

\* answers of the gateway listing: a body that is no JSON, or a JSON list of
\* gateways given by their deviceId
JsonList(gws) == [json |-> TRUE, gateways |-> gws]
ListBodies ==
    { [json |-> FALSE, gateways |-> <<>>], JsonList(<<>>), JsonList(<< 1 >>), JsonList(<< 1, 2 >>) }

\* refresh_token_out = api.current_refresh_token().strip()
RefreshTokenOutMutant == strip(OrElse(ctorArg, <<>>))
RefreshTokenOut == strip(seed)

\* `except Exception`: the form again, with errors["base"]
FlowError(base) == [flow EXCEPT !.pc = "form", !.errors = base]

\* The user submits the form with a str, as the schema demands:
\* refresh_token_in = user_input[...].strip(), then
\* PointtApi(session, refresh_token_in) inside the try
FlowSubmit(raw) ==
    /\ flow.pc = "form"
    /\ Construct(SomeStr(strip(raw.val)), FALSE)
    /\ flow' = IF client' = "ok"
               THEN [flow EXCEPT !.pc = "calling", !.errors = "none"]
               ELSE FlowError("auth_failed")

\* line 38: get_gateways() -> _headers() -> _ensure_tokens()
FlowCall ==
    /\ flow.pc = "calling"
    /\ Call(FlowTask)
    /\ flow' = [flow EXCEPT !.pc = IF pc'[FlowTask] = "posting" THEN "refreshing"
                                   ELSE "listing"]

\* the token endpoint answered; on success the GET of the listing leaves
FlowTokenAnswer(status, js) ==
    /\ flow.pc = "refreshing"
    /\ Response(FlowTask, status, js)
    /\ flow' = IF last'.outcome = "raise" THEN FlowError("auth_failed")
               ELSE [flow EXCEPT !.pc = "listing"]

\* The listing answered: api.py 152-153, then lines 41-64 and the form of
\* async_step_gateway
FlowListAnswer(status, body) ==
    /\ flow.pc = "listing"
    /\ flow' = IF raise_for_status(status) \/ ~body.json
               THEN FlowError("auth_failed")
               ELSE IF body.gateways = <<>>
               THEN [FlowError("no_gateways") EXCEPT !.refresh_token = RefreshTokenOut]
               ELSE [flow EXCEPT !.pc = "gateway", !.refresh_token = RefreshTokenOut,
                                 !.gateways = body.gateways]
    /\ UNCHANGED << tokenVars, poll, calc >>

\* The user picks one of the listed gateways: async_step_gateway, lines 77-88
FlowPick(gateway_id) ==
    /\ flow.pc = "gateway"
    /\ \E i \in DOMAIN flow.gateways : flow.gateways[i] = gateway_id
    /\ flow' = [flow EXCEPT !.pc = "created",
                            !.entry = [created |-> TRUE,
                                       refresh_token |-> flow.refresh_token,
                                       gateway_id |-> gateway_id]]
    /\ UNCHANGED << tokenVars, poll, calc >>

\* The client of a submission is local to async_step_user: once the form is
\* shown again it is gone and the next submission builds a new one
FlowDropClient ==
    /\ flow.pc = "form"
    /\ client # "none"
    /\ client' = "none"
    /\ ctorArg' = AbsentStr
    /\ hasCb' = FALSE
    /\ seed' = <<>>
    /\ tokens' = NoTokens
    /\ persisted' = <<>>
    /\ posts' = 0
    /\ serverCurrent' = <<>>
    /\ last' = NoLast
    /\ request' = NoRequest
    /\ UNCHANGED << lockHolder, waiters, pc, frame, pre, now, poll, calc, flow >>

FlowNext ==
    \/ \E raw \in { SomeStr(<<>>), SomeStr(<< WS >>), SomeStr(<< WS, "a", WS >>),
                     SomeStr(TokB) } : FlowSubmit(raw)
    \/ FlowCall
    \/ \E status \in Statuses, js \in Responses : FlowTokenAnswer(status, js)
    \/ \E status \in ApiStatuses, body \in ListBodies : FlowListAnswer(status, body)
    \/ \E gateway_id \in {1, 2} : FlowPick(gateway_id)
    \/ FlowDropClient

FlowSpec == Init /\ [][FlowNext]_vars

\* ------------------------------------------------------------- vocabulary
InExchange(c) == pc[c] = "posting"
InCallback(c) == pc[c] = "callback"
NoCallbackRunning == \A c \in Callers : ~InCallback(c)

\* the stored token is more than 60 seconds away from its expiry
StoredTokenFresh == tokens.present /\ now < tokens.expires_at - 60

\* the last finished call received a well-formed success answer
LastAnswerOk == last.posted /\ last.frame.status < 400 /\ last.frame.js.has_access

\* refresh_token of the last answer, as the server sent it
LastAnswerRefresh == last.frame.js.refresh_token

\* ------------------------------------------------------------------- C1
\* C1: at any instant at most one task has a POST to the token endpoint in
\* flight, and that task holds the lock; a task that arrived meanwhile is
\* queued and has sent nothing.
C1_OneExchangeInFlight ==
    /\ Cardinality({c \in Callers : InExchange(c)}) <= 1
    /\ \A c \in Callers : InExchange(c) => lockHolder = c

C1_Witness ==
    \E c, d \in Callers : InExchange(c) /\ pc[d] = "waiting" /\ posts = 1

\* ------------------------------------------------------------------- C2
\* C2 as stated: a call that queued behind a pending exchange never sends a
\* request of its own, whatever the outcome of that exchange.
C2_WaitersNeverPost == last.queued => ~last.posted

\* C2 amended: a queued task that gets the lock while the stored token is
\* still fresh returns that token, leaves it in place for the next waiter and
\* sends nothing; otherwise (failed exchange, thrown callback, token already
\* within 60 s of expiry) it performs its own exchange, alone.
C2_WaitersShareFreshToken ==
    [][ \A c \in Callers :
          (pc[c] = "waiting" /\ pc'[c] # "waiting") =>
             IF tokens.present /\ now < tokens.expires_at - 60
             THEN /\ pc'[c] = "idle"
                  /\ posts' = posts
                  /\ tokens' = tokens
                  /\ last'.outcome = "return" /\ ~last'.posted /\ last'.queued
             ELSE /\ pc'[c] = "posting"
                  /\ posts' = posts + 1
                  /\ tokens' = tokens
                  /\ \A d \in Callers \ {c} : ~InExchange(d)' ]_vars

C2_Witness ==
    /\ last.queued /\ last.outcome = "return" /\ ~last.posted
    /\ tokens.present /\ tokens.access_token = posts

\* ------------------------------------------------------------------- C3
\* C3: when the answer's refresh_token differs from the token sent, the
\* callback was invoked exactly once, with the new value, and the seed is the
\* new value afterwards.
C3_RotationFiresCallback ==
    ( /\ LastAnswerOk /\ hasCb
      /\ LastAnswerRefresh.present /\ LastAnswerRefresh.val # <<>>
      /\ strip(LastAnswerRefresh.val) # last.frame.rt )
    => /\ last.frame.cbCount = 1
       /\ last.frame.cbArg = strip(LastAnswerRefresh.val)
       /\ NoCallbackRunning => seed = strip(LastAnswerRefresh.val)

\* ------------------------------------------------------------------- C4
\* C4: after a rotation whose callback threw, the stored token state does not
\* point at the old refresh token and the next exchange sends the new one.
C4_ThrowKeepsNewToken ==
    last.cbThrew =>
       /\ NoCallbackRunning => seed = last.frame.cbArg
       /\ tokens.present => tokens.refresh_token = last.frame.cbArg
       /\ \A c \in Callers : InExchange(c) => frame.rt = last.frame.cbArg

\* ------------------------------------------------------------------- C5
\* C5: when the answer's refresh_token is absent or identical to the token
\* sent, the callback was not invoked by that refresh.
C5_NoCallbackWithoutRotation ==
    ( /\ LastAnswerOk
      /\ \/ ~LastAnswerRefresh.present
         \/ LastAnswerRefresh.val = last.frame.rt )
    => last.frame.cbCount = 0

\* ------------------------------------------------------------------- C6
\* C6: an exchange answered with status >= 400, or without access_token,
\* raises and leaves token state, seed and persisted value as they were when
\* the attempt began; the callback is not invoked.
C6_FailedRefreshChangesNothing ==
    [][ \A c \in Callers :
          ( /\ InExchange(c) /\ pc'[c] = "idle"
            /\ (last'.frame.status >= 400 \/ ~last'.frame.js.has_access) )
          => /\ last'.outcome = "raise"
             /\ last'.frame.cbCount = 0
             /\ seed' = pre.seed0 /\ seed' = seed
             /\ tokens' = pre.tokens0 /\ tokens' = tokens
             /\ persisted' = pre.persisted0 /\ persisted' = persisted ]_vars

C6_Witness ==
    /\ last.posted /\ last.outcome = "raise" /\ ~last.cbThrew
    /\ last.frame.status >= 400
    /\ tokens.present /\ seed = TokB /\ persisted = TokB

\* ------------------------------------------------------------------- C7
\* C7: a task that gets the lock sends a POST iff no token is stored or
\* now >= expires_at - 60; with a fresh token it returns the stored token and
\* changes nothing.
C7_RefreshIffDue ==
    [][ /\ \A c \in Callers :
             (~InExchange(c) /\ InExchange(c)') =>
                 /\ posts' = posts + 1
                 /\ ~tokens.present \/ now >= tokens.expires_at - 60
                 /\ lockHolder' = c
        /\ posts' # posts => \E c \in Callers : ~InExchange(c) /\ InExchange(c)'
        /\ \A c \in Callers :
             (pc[c] \in {"idle", "waiting"} /\ lockHolder' = c) => InExchange(c)'
        /\ \A c \in Callers :
             (pc[c] = "waiting" /\ pc'[c] = "idle") => StoredTokenFresh
        /\ (last' # last /\ last'.outcome = "return" /\ ~last'.posted) =>
                 /\ StoredTokenFresh
                 /\ UNCHANGED << seed, tokens, persisted, lockHolder, posts >> ]_vars

C7_Witness ==
    /\ last.outcome = "return" /\ ~last.posted
    /\ tokens.present /\ now = tokens.expires_at - 61

\* ------------------------------------------------------------------- C8
\* C8: the refresh token sent in an exchange is the one the server handed out
\* last (the constructor seed before any successful exchange).
C8_SendsCurrentToken ==
    \A c \in Callers : InExchange(c) => frame.rt = serverCurrent

\* ------------------------------------------------------------------- C9
\* C9: while the callback runs the seed already holds the new token, which is
\* the callback's argument, the task still holds the lock and has not
\* returned, and no other task is in an exchange or in the callback; a task
\* that returns a rotated token with a callback configured passed through the
\* callback.
C9_RotationOrder ==
    /\ [](\A c \in Callers : InCallback(c) =>
            /\ lockHolder = c
            /\ frame.cbCount = 1
            /\ seed = frame.cbArg /\ frame.cbArg = frame.refresh
            /\ seed # pre.seed0
            /\ tokens = pre.tokens0
            /\ \A d \in Callers \ {c} : pc[d] \in {"idle", "waiting"})
    /\ [][ \A c \in Callers :
             (InExchange(c) /\ pc'[c] = "idle" /\ hasCb /\ last'.outcome = "return")
                => (seed' = seed /\ last'.frame.cbCount = 0) ]_vars

C9_Witness ==
    \E c, d \in Callers : InCallback(c) /\ pc[d] = "waiting" /\ tokens.present

\* ------------------------------------------------------------------ C10
\* C10: a constructor call with a blank refresh token fails and never leads to
\* a network call; every constructed client has a non-empty seed.
C10_BlankSeedRejected ==
    /\ client # "none" => (client = "failed" <=>
                             (~ctorArg.present \/ \A i \in 1..Len(ctorArg.val) : ctorArg.val[i] = WS))
    /\ client = "failed" =>
          /\ posts = 0 /\ lockHolder = 0 /\ last = NoLast
          /\ \A c \in Callers : pc[c] = "idle"
    /\ client = "ok" => seed # <<>>

C10_Witness == client = "failed" /\ ctorArg = SomeStr(<< WS >>)

\* ------------------------------------------------------------------ C14
\* C14: a get_gateways or bulk call sends its request only after its own
\* _ensure_tokens invocation returned, with the access token that invocation
\* returned: the token stored at that moment, and the freshly obtained one
\* when the invocation refreshed; a failed invocation sends nothing.  So the
\* request sent last always carries the stored access token, never one that
\* a completed refresh replaced.
C14_BearerFromOwnEnsure ==
    /\ [](request.sent => (tokens.present /\ request.headers.Authorization = tokens.access_token))
    /\ [][ \A c \in Callers :
             (pc[c] # "idle" /\ pc'[c] = "idle") =>
                IF last'.outcome = "return"
                THEN /\ request'.sent
                     /\ request'.headers.Authorization = tokens'.access_token
                     /\ last'.posted =>
                           /\ request'.headers.Authorization = last'.frame.access
                           /\ tokens.present =>
                                 request'.headers.Authorization # tokens.access_token
                ELSE request' = request ]_vars

C14_Witness ==
    /\ request.sent /\ last.outcome = "return" /\ last.posted
    /\ request.headers.Authorization = 2 /\ tokens.access_token = 2

\* ------------------------------------------- vocabulary of the util claims
\* the points of a payload's recording, none when the payload has no list
PointsOf(payload) ==
    IF payload.kind = "dict" /\ payload.recording.kind = "list"
    THEN payload.recording.pts ELSE <<>>

\* an Optional[float] with an absent value counted as 0
ValueOrZero(o) == IF o.present THEN o.val ELSE Zero

\* sum of y/1000 over the points whose completeness flag c is positive, an
\* absent y counted as 0
RECURSIVE SumCompleteWh(_)
SumCompleteWh(pts) ==
    IF pts = <<>> THEN Zero
    ELSE IF Head(pts).c.present /\ Head(pts).c.val > 0
         THEN FracAdd(Frac(IF Head(pts).y.present THEN Head(pts).y.val ELSE 0, 1000),
                      SumCompleteWh(Tail(pts)))
         ELSE SumCompleteWh(Tail(pts))

\* a 24-point day recording whose point of index 18 holds y = 2500
Recording24 ==
    [i \in 1..24 |-> Point(SomeNum(IF i = 19 THEN 2500 ELSE 100), SomeNum(1))]

\* the calendar day before dt
PreviousDay(dt) ==
    IF dt.day > 1 THEN [dt EXCEPT !.day = dt.day - 1]
    ELSE LET prev == Calendar[MonthIndex(dt.year, dt.month) - 1] IN
           [dt EXCEPT !.year = prev.year, !.month = prev.month, !.day = prev.days]

\* the entries of a bulk answer's first root, none when there is no such list
EntriesOf(bulk_resp) ==
    IF /\ bulk_resp.kind = "list" /\ bulk_resp.items # <<>>
       /\ bulk_resp.items[1].isObj /\ bulk_resp.items[1].resourcePaths.kind = "list"
    THEN bulk_resp.items[1].resourcePaths.entries ELSE <<>>

\* the three conditions an entry has to meet to be extracted
Qualifies(entry, needle) ==
    /\ entry.isObj
    /\ Contains(needle, entry.resourcePath)
    /\ entry.gatewayResponse.kind = "obj"
    /\ entry.gatewayResponse.status = 200
    /\ entry.gatewayResponse.payload.kind # "none"

\* ------------------------------------------------------------------ C15
\* C15: kwh_at_index(payload, idx) is y/1000 of recording[idx] for every
\* in-range idx whose y is non-null, whatever the point's c, and absent when
\* the payload is absent, idx is out of range or y is null; y = 2500 at index
\* 18 gives 2.5 and index 30 of a 24-point recording gives absent.
C15_KwhAtIndex ==
    calc.fn = "kwh_at_index" =>
       /\ LET pts == PointsOf(calc.payload) IN
            IF /\ calc.payload.kind # "none"
               /\ 0 <= calc.idx /\ calc.idx < Len(pts)
               /\ pts[calc.idx + 1].y.present
            THEN calc.out = SomeFrac(Frac(pts[calc.idx + 1].y.val, 1000))
            ELSE ~calc.out.present
       /\ kwh_at_index(DictPayload(FALSE, ListRecording(Recording24)), 18) = SomeFrac(Frac(5, 2))
       /\ ~kwh_at_index(DictPayload(FALSE, ListRecording(Recording24)), 30).present

\* ------------------------------------------------------------------ C16
\* C16: for a local time with hour h, last_complete_hour_target returns the
\* index (h - 1) mod 24, within 0..23, the day string of the same calendar day
\* when h >= 1 and of the previous calendar day when h = 0, and the label
\* "<day> HH:00" of that index; 00:15 gives the previous day and 23, 19:34 the
\* same day and 18.
C16_LastCompleteHour ==
    calc.fn = "last_complete_hour_target" =>
       LET h == calc.now.hour
           r == calc.out
           at(hh, mm) == [year |-> 2024, month |-> 3, day |-> 10, hour |-> hh, minute |-> mm]
       IN /\ r.idx = (h - 1) % 24
          /\ r.idx \in 0..23
          /\ r.day_str = strftime_day(IF h >= 1 THEN calc.now ELSE PreviousDay(calc.now))
          /\ r.label = r.day_str \o << " ", DigitChars[(r.idx \div 10) + 1],
                                      DigitChars[(r.idx % 10) + 1], ":", "0", "0" >>
          /\ last_complete_hour_target(at(0, 15)).day_str
                = << "2", "0", "2", "4", "-", "0", "3", "-", "0", "9" >>
          /\ last_complete_hour_target(at(0, 15)).idx = 23
          /\ last_complete_hour_target(at(19, 34)).day_str
                = << "2", "0", "2", "4", "-", "0", "3", "-", "1", "0" >>
          /\ last_complete_hour_target(at(19, 34)).idx = 18

C16_Witness ==
    /\ calc.fn = "last_complete_hour_target"
    /\ calc.now.month = 3 /\ calc.now.day = 1 /\ calc.now.hour = 0 /\ calc.now.minute = 15
    /\ calc.out.idx = 23
    /\ calc.out.label = << "2", "0", "2", "4", "-", "0", "2", "-", "2", "9", " ",
                           "2", "3", ":", "0", "0" >>

\* ------------------------------------------------------------------ C17
\* C17: the derived electricity is absent when compressor and e-heater are
\* both absent, and otherwise their sum with an absent operand counted as 0
\* (5 and absent give 5); it is never 0 because both are absent.
C17_Electricity ==
    calc.fn = "derive" =>
       /\ IF ~calc.a.present /\ ~calc.b.present
          THEN ~calc.out.elec.present
          ELSE calc.out.elec = SomeFrac(FracAdd(ValueOrZero(calc.a), ValueOrZero(calc.b)))
       /\ Electricity(SomeFrac(Frac(5, 1)), AbsentFrac) = SomeFrac(Frac(5, 1))

C17_Witness ==
    /\ calc.fn = "derive"
    /\ calc.a = SomeFrac(Frac(5, 1)) /\ ~calc.b.present
    /\ calc.out.elec = SomeFrac(Frac(5, 1))

\* ------------------------------------------------------------------ C18
\* C18: compute_cop(heat, elec) is absent when heat is absent, elec is absent
\* or elec <= 0, and otherwise heat / elec (300 and 100 give 3, 300 and 0 give
\* absent); the COP derived from compressor, e-heater and heat output is never
\* present when the derived electricity is absent or zero.
C18_ComputeCop ==
    /\ calc.fn = "compute_cop" =>
          /\ IF ~calc.a.present \/ ~calc.b.present \/ calc.b.val.num <= 0
             THEN ~calc.out.present
             ELSE /\ calc.out.present
                  /\ calc.out.val.num * calc.b.val.num * calc.a.val.den
                        = calc.a.val.num * calc.out.val.den * calc.b.val.den
          /\ compute_cop(SomeFrac(Frac(300, 1)), SomeFrac(Frac(100, 1))) = SomeFrac(Frac(3, 1))
          /\ ~compute_cop(SomeFrac(Frac(300, 1)), SomeFrac(Frac(0, 1))).present
    /\ calc.fn = "derive" =>
          (calc.out.cop.present => (calc.out.elec.present /\ calc.out.elec.val.num > 0))

C18_Witness ==
    /\ calc.fn = "compute_cop"
    /\ calc.a = SomeFrac(Frac(300, 1)) /\ calc.b = SomeFrac(Frac(100, 1))
    /\ calc.out = SomeFrac(Frac(3, 1))

\* ------------------------------------------------------------------ C19
\* C19: _extract_payload_from_bulk returns the payload of the first entry, in
\* list order, whose resourcePath contains the fragment, whose status is 200
\* and whose payload is non-null, and absent when no entry meets all three
\* (a matching entry with status 200 and a null payload, or with another
\* status and a payload, is passed over).  An entry that is not an object
\* ends the scan with absent.
C19_ExtractFirstQualifying ==
    calc.fn = "extract_payload_from_bulk" =>
       LET es == EntriesOf(calc.bulk_resp)
           stop == { i \in 1..Len(es) : ~es[i].isObj \/ Qualifies(es[i], calc.needle) }
       IN IF stop = {}
          THEN calc.out = NonePayload
          ELSE LET i == CHOOSE j \in stop : \A k \in stop : j <= k IN
                 calc.out = IF es[i].isObj THEN es[i].gatewayResponse.payload
                            ELSE NonePayload

C19_Witness ==
    /\ calc.fn = "extract_payload_from_bulk"
    /\ calc.needle = Needle("compressor")
    /\ Len(EntriesOf(calc.bulk_resp)) = 2
    /\ EntriesOf(calc.bulk_resp)[1] = Entry(ResourcePath("compressor", SomeDay), Gw(200, NonePayload))
    /\ EntriesOf(calc.bulk_resp)[2] = Entry(ResourcePath("compressor", SomeDay), Gw(200, PayB))
    /\ calc.out = PayB

\* ------------------------------------------------------------------ C20
\* C20: sum_kwh(payload) is absent exactly when the payload is absent; for a
\* present payload, also one with an empty or missing recording, it is the sum
\* of y/1000 over the points whose c is positive, an absent y counted as 0.
C20_SumKwh ==
    calc.fn = "sum_kwh" =>
       IF calc.payload.kind = "none"
       THEN ~calc.out.present
       ELSE calc.out = SomeFrac(SumCompleteWh(PointsOf(calc.payload)))

\* ------------------------------------------- vocabulary of the poll claims
\* a bulk answer that is a non-empty list whose first element is an object
\* with a list resourcePaths of objects
WellFormed(body) ==
    /\ body.kind = "list" /\ body.items # <<>>
    /\ body.items[1].isObj /\ body.items[1].resourcePaths.kind = "list"
    /\ \A i \in 1..Len(body.items[1].resourcePaths.entries) :
          body.items[1].resourcePaths.entries[i].isObj

\* every resource path of the answer resolves to a null payload
EveryPayloadNull(body) ==
    \A i \in 1..Len(EntriesOf(body)) :
       \/ EntriesOf(body)[i].gatewayResponse.kind # "obj"
       \/ EntriesOf(body)[i].gatewayResponse.payload.kind = "none"

\* ------------------------------------------------------------------ C11
\* C11: an answer with status >= 400 to any bulk request of a poll cycle,
\* the retried request included, makes that cycle fail: a cycle that saw such
\* an answer is failed and goes no further.
C11_HttpErrorFailsPoll == poll.sawError => poll.pc = "failed"

\* ------------------------------------------------------------------ C12
\* C12 as stated: the first bulk call of a set is followed by a retry exactly
\* when every resource path of its (well-formed) response resolves to a null
\* payload.
C12_RetryIffEveryPayloadNull ==
    [][ ( /\ poll.pc = "first" /\ poll' # poll
          /\ poll'.answer.status < 400 /\ WellFormed(poll'.answer.body) )
        => (poll'.pc = "sleep" <=> EveryPayloadNull(poll'.answer.body)) ]_vars

\* C12 amended: the retry happens exactly when the first response lists at
\* least one resource path and every one resolves to a null payload; a set
\* sees at most two bulk calls; the response of a successful retry, whatever
\* it holds, is the one the sensor values are extracted from.
C12_RetryOnceIffAllNull ==
    /\ [](/\ poll.calls.day <= 2 /\ poll.calls.month <= 2
          /\ poll.pc \in {"sleep", "retry"} =>
                poll.calls[poll.set] = (IF poll.pc = "retry" THEN 2 ELSE 1)
          /\ poll.pc = "done" =>
                poll.data = EnergyDataOf(poll.day_resp, poll.month_resp, poll.hour_idx,
                                         poll.label))
    /\ [][ ( /\ poll.pc = "first" /\ poll' # poll
             /\ poll'.answer.status < 400 )
           => (poll'.pc = "sleep" <=>
                  /\ WellFormed(poll'.answer.body)
                  /\ EntriesOf(poll'.answer.body) # <<>>
                  /\ EveryPayloadNull(poll'.answer.body)) ]_vars
    /\ [][ (poll.pc # "retry" /\ poll'.pc = "retry") => poll.pc = "sleep" ]_vars
    /\ [][ (poll.pc = "retry" /\ poll' # poll /\ poll'.answer.status < 400)
           => IF poll.set = "day"
              THEN poll'.day_resp = poll'.answer.body /\ poll'.pc = "first"
              ELSE /\ poll'.month_resp = poll'.answer.body /\ poll'.pc = "done"
                   /\ poll'.data = EnergyDataOf(poll.day_resp, poll'.answer.body,
                                                poll.hour_idx, poll.label) ]_vars

C12_Witness ==
    /\ poll.pc = "done" /\ ~poll.sawError
    /\ poll.calls.day = 2 /\ poll.calls.month = 1
    /\ poll.hour_idx = 0
    /\ poll.data.compressor_kwh_last_hour.present
    /\ poll.data.eheater_kwh_last_hour.present

\* ------------------------------------------------------------------ C13
\* C13: when the first bulk call succeeded with a response that is not a list
\* of objects with resourcePaths, _bulk_with_retry neither fails nor retries:
\* it returns that response unchanged; a poll fails only on an HTTP error.
C13_InspectionErrorKeepsFirst ==
    /\ [](poll.pc = "failed" => poll.answer.status >= 400)
    /\ [][ ( /\ poll.pc = "first" /\ poll' # poll
             /\ poll'.answer.status < 400 /\ ~WellFormed(poll'.answer.body) )
           => /\ poll'.pc \in {"first", "done"}
              /\ poll'.calls[poll.set] = 1
              /\ IF poll.set = "day"
                 THEN poll'.day_resp = poll'.answer.body
                 ELSE poll'.month_resp = poll'.answer.body ]_vars

C13_Witness ==
    /\ poll.pc = "done" /\ ~poll.sawError
    /\ poll.day_resp = ListResp(<< NotARoot >>)
    /\ poll.calls.day = 1


\* ---------------------------------------------------------------- C21
\* C21: the extraction functions (_extract_payload_from_bulk,
\* recording_points, sum_kwh, kwh_at_index, compute_cop) never raise, whatever
\* the shape of their input: a missing recording, a recording entry that is
\* null or not an object, a y or c that is not a number.
C21_ExtractionTotal ==
    calc.fn \in { "extract_payload_from_bulk", "recording_points", "sum_kwh", "kwh_at_index",
                  "compute_cop" }
        => ~calc.raised

\* ---------------------------------------------------------------- C22
\* C22: after the constructor, the seed and the stored token state change
\* only in a step of the task that holds the lock, and that task is the only
\* one inside the body of _ensure_tokens; a task enters the body (and reads
\* seed and token state) only when nobody holds the lock, so never while
\* another task is between its writes.
C22_WritesUnderLock ==
    /\ [](\A c \in Callers : pc[c] \in {"posting", "callback"} => lockHolder = c)
    /\ [][ (seed' # seed \/ tokens' # tokens) =>
              \/ client = "none"
              \/ \E c \in Callers :
                    /\ lockHolder = c
                    /\ pc[c] \in {"posting", "callback"}
                    /\ \A d \in Callers \ {c} : pc'[d] = pc[d] ]_vars
    /\ [][ \A c \in Callers :
             ( /\ pc[c] \in {"idle", "waiting"}
               /\ \/ pc'[c] = "posting"
                  \/ pc'[c] = "idle" /\ last' # last /\ ~last'.posted )
             => /\ lockHolder = 0
                /\ \A d \in Callers : pc[d] \in {"idle", "waiting"}
                /\ seed' = seed /\ tokens' = tokens ]_vars

C22_Witness ==
    /\ hasCb /\ last.queued /\ last.outcome = "return" /\ ~last.posted
    /\ tokens.present /\ tokens.refresh_token = TokB /\ seed = TokB /\ persisted = TokB

\* ---------------------------------------------------------------- C23
\* C23: whenever no _ensure_tokens call holds the lock and a token state is
\* stored, its refresh_token equals the seed, which is what
\* current_refresh_token() returns.
C23_StoredTokenMatchesSeed ==
    (lockHolder = 0 /\ tokens.present) => tokens.refresh_token = seed

\* ---------------------------------------------------------------- C24
\* C24: with the persistence callback configured, the refresh token stored in
\* the config entry equals the seed whenever no refresh is in progress.
C24_EntryMatchesSeed ==
    (client = "ok" /\ hasCb /\ lockHolder = 0) => persisted = seed

\* ---------------------------------------------------------------- C26
\* C26: when an exchange ends in a return, the stored token state is made of
\* the access token of that answer, the answer's refresh_token or, when the
\* answer has none (absent or empty), the refresh token just sent, and
\* expires_at = time of installation + expires_in, with 3600 when the answer
\* has no expires_in; the caller gets exactly the stored state (its request
\* carries that access token).
C26_InstalledTokens ==
    [][ \A c \in Callers :
          (pc[c] \in {"posting", "callback"} /\ pc'[c] = "idle" /\ last'.outcome = "return") =>
             LET js == last'.frame.js
                 sent == last'.frame.rt
             IN /\ last'.frame.access = posts
                /\ tokens' =
                     [present |-> TRUE,
                      access_token |-> last'.frame.access,
                      refresh_token |->
                          IF js.refresh_token.present /\ js.refresh_token.val # <<>>
                          THEN js.refresh_token.val ELSE sent,
                      expires_at |->
                          now + (IF js.expires_in.present THEN js.expires_in.val ELSE 3600)]
                /\ request'.sent
                /\ request'.headers.Authorization = tokens'.access_token ]_vars

C26_Witness ==
    /\ last.outcome = "return" /\ last.posted /\ last.frame.cbCount = 1
    /\ ~last.frame.js.expires_in.present
    /\ tokens.present /\ tokens.refresh_token = TokB /\ tokens.expires_at > 3600
    /\ request.headers.Authorization = tokens.access_token

\* ---------------------------------------------------------------- C25
\* C25: the lock is released on every exit path of _ensure_tokens (return
\* of the valid token, HTTP error, malformed answer, throwing callback,
\* success), so it is held only by a task inside the body; and, every POST and
\* callback coming to an end, every task that called _ensure_tokens, queued
\* ones included, eventually returns or raises.
C25_LockReleasedAndProgress ==
    /\ [](lockHolder # 0 => pc[lockHolder] \in {"posting", "callback"})
    /\ [][ \A c \in Callers :
             (pc[c] # "idle" /\ pc'[c] = "idle") =>
                 /\ lockHolder' = 0
                 /\ last'.outcome \in {"return", "raise"} ]_vars
    /\ \A c \in Callers : (pc[c] # "idle") ~> (pc[c] = "idle")

C25_Witness ==
    \E c \in Callers :
        /\ pc[c] = "posting" /\ pre.queued
        /\ last.posted /\ last.outcome = "raise" /\ last.cbThrew

\* ---------------------------------------------------------------- C27
\* C27: an entry created by the configuration flow holds the client's current
\* refresh token after the gateway listing: the seed, which is the token the
\* server handed out last, so the rotated one when the refresh of the listing
\* rotated it; an entry is created only after a listing that succeeded and
\* returned gateways, and a submission that ends in an error creates none.
C27_EntryHoldsCurrentToken ==
    /\ [](flow.entry.created =>
            /\ client = "ok" /\ last.outcome = "return" /\ request.sent
            /\ flow.entry.refresh_token = seed
            /\ flow.entry.refresh_token = serverCurrent
            /\ (LastAnswerRefresh.present /\ LastAnswerRefresh.val # <<>>) =>
                   flow.entry.refresh_token = LastAnswerRefresh.val
            /\ flow.errors = "none"
            /\ \E i \in DOMAIN flow.gateways : flow.gateways[i] = flow.entry.gateway_id)
    /\ [](flow.errors # "none" => (flow.pc = "form" /\ ~flow.entry.created))
    /\ [][ (~flow.entry.created /\ flow'.entry.created) =>
              (flow.pc = "gateway" /\ flow.gateways # <<>> /\ UNCHANGED tokenVars) ]_vars

C27_Witness ==
    /\ flow.entry.created /\ flow.entry.refresh_token = TokB
    /\ ctorArg = SomeStr(TokA)
    /\ flow.entry.gateway_id = 2

============================================================================
